---- MODULE Spec2Model ----
(***************************************************************************)
(* The tic-tac-toe board (TicTacToeBoard), its evaluator (eval_tictactoe)  *)
(* and the generic search (minmax with alpha-beta pruning, move ordering,  *)
(* the depth-1 shortcut and the process-wide TRANSPOSITION_TABLE) of       *)
(* src/tictactoe.py.                                                       *)
(***************************************************************************)
EXTENDS Integers, Sequences, FiniteSets, TLC

(***************************************************************************)
(* Bounds of the exploration.                                              *)
(***************************************************************************)
\* longest history (past_moves) a caller builds with do_move
MaxPly == 3
\* the game driver plays its moves on the first MaxCell cells (row-major)
MaxCell == 5
\* deepest max_depth a caller passes to minmax
MaxDepth == 4
\* number of top-level minmax calls in one run of the process
MaxSearches == 1
\* number of top-level minmax calls of a process that keeps its table
MaxWarm == 2
\* deepest max_depth of those calls
MaxDeep == 5
\* that process plays its moves on the first MaxWarmCell cells
MaxWarmCell == 4
\* and searches once the history holds MinWarmPly moves
MinWarmPly == 2
\* deepest max_depth a caller passes to iterative_deepening
MaxIterDepth == 2
\* largest time budget max_t a caller passes (the smallest is negative)
MaxTime == 2
\* most time that passes between two readings of the clock
MaxTick == 1
\* the caller of iterative_deepening plays on the first MaxIterCell cells
MaxIterCell == 3
\* longest history a caller of the chess board builds with do_move
MaxChessPly == 3
\* deepest max_depth of a search started on an arbitrary grid
MaxGridDepth == 3

(***************************************************************************)
(* Program constants.                                                      *)
(***************************************************************************)
WIN_SCORE == 1000
\* np.inf: larger in magnitude than every score the evaluator returns
Inf == 1000000
\* Python's None
None == "None"
\* "v is None", for a v of any type
is_None(v) == ToString(v) = ToString(None)
\* the side length of the grid: np.full(shape=(3, 3), ...)
SIZE == 3

TURNS == <<"x", "o">>
Index == 0 .. (SIZE - 1)
Cell == Index \X Index

\* the cells in the order of board.flatten() and of np.where: row-major
RECURSIVE cells_from(_)
cells_from(k) ==
    IF k >= SIZE * SIZE THEN <<>>
    ELSE << <<k \div SIZE, k % SIZE>> >> \o cells_from(k + 1)

AllCells == cells_from(0)

\* the place of cell (r, c) in the grid's row-major storage
at(move) == move[1] * SIZE + move[2] + 1

(***************************************************************************)
(* TicTacToeBoard.  A board object is the record [board, turn, past_moves];*)
(* the operators below take and return the whole process state `st`: the   *)
(* board object's three fields, the global table, the pending exception    *)
(* (err) and the number of calls of each kind made since the counters      *)
(* were last cleared.  With the counters the state keeps what was seen of  *)
(* the calls of do_move: live says that the evaluator was asked about the  *)
(* grid as it is now and reported it not over, lives keeps that answer for *)
(* the grid under each move do_move applied, nbad counts the calls of      *)
(* do_move onto a cell that is not empty or on a grid that is not live,    *)
(* and peak is the longest past_moves has been.                            *)
(***************************************************************************)
EmptyBoard == [k \in 1 .. SIZE * SIZE |-> " "]

new_board(t) ==
    [board |-> EmptyBoard, past_moves |-> <<>>, turn |-> t]

\* a moves() that lists every cell of the grid, empty or not
moves_unfiltered(board) == AllCells

moves(board) == SelectSeq(AllCells, LAMBDA m : board[at(m)] = " ")

\* a next_turn that hands the turn to the side that has it
next_turn_same(turn) == turn

next_turn(turn) == IF turn = "x" THEN "o" ELSE "x"

\* do_move without "self.past_moves.append(move)"
do_move_unrecorded(st, move) ==
    [st EXCEPT !.board = [st.board EXCEPT ![at(move)] = st.turn],
               !.turn = next_turn(st.turn),
               !.ndo = st.ndo + 1]

do_move(st, move) ==
    [st EXCEPT !.board = [st.board EXCEPT ![at(move)] = st.turn],
               !.turn = next_turn(st.turn),
               !.past_moves = Append(st.past_moves, move),
               !.ndo = st.ndo + 1,
               !.nbad = IF st.board[at(move)] # " " \/ ~st.live
                        THEN st.nbad + 1 ELSE st.nbad,
               !.peak = IF Len(st.past_moves) + 1 > st.peak
                        THEN Len(st.past_moves) + 1 ELSE st.peak,
               !.lives = Append(st.lives, st.live),
               !.live = FALSE]

\* undo_move without "self.turn = self.next_turn()"
undo_move_keeps_turn(st) ==
    IF Len(st.past_moves) = 0
    THEN [st EXCEPT !.err = "IndexError"]
    ELSE LET last_move == st.past_moves[Len(st.past_moves)]
         IN [st EXCEPT !.past_moves = SubSeq(st.past_moves, 1, Len(st.past_moves) - 1),
                       !.board = [st.board EXCEPT ![at(last_move)] = " "],
                       !.nundo = st.nundo + 1,
                       !.live = Len(st.lives) > 0 /\ st.lives[Len(st.lives)],
                       !.lives = SubSeq(st.lives, 1, Len(st.lives) - 1)]

\* undo_move that takes an empty history for nothing to pop and carries on
undo_move_unchecked(st) ==
    IF Len(st.past_moves) = 0
    THEN [st EXCEPT !.turn = next_turn(st.turn), !.nundo = st.nundo + 1]
    ELSE LET last_move == st.past_moves[Len(st.past_moves)]
         IN [st EXCEPT !.past_moves = SubSeq(st.past_moves, 1, Len(st.past_moves) - 1),
                       !.board = [st.board EXCEPT ![at(last_move)] = " "],
                       !.turn = next_turn(st.turn),
                       !.nundo = st.nundo + 1,
                       !.live = Len(st.lives) > 0 /\ st.lives[Len(st.lives)],
                       !.lives = SubSeq(st.lives, 1, Len(st.lives) - 1)]

undo_move(st) ==
    IF Len(st.past_moves) = 0
    THEN \* list.pop() on an empty list raises before anything is written
         [st EXCEPT !.err = "IndexError"]
    ELSE LET last_move == st.past_moves[Len(st.past_moves)]
         IN [st EXCEPT !.past_moves = SubSeq(st.past_moves, 1, Len(st.past_moves) - 1),
                       !.board = [st.board EXCEPT ![at(last_move)] = " "],
                       !.turn = next_turn(st.turn),
                       !.nundo = st.nundo + 1,
                       !.live = Len(st.lives) > 0 /\ st.lives[Len(st.lives)],
                       !.lives = SubSeq(st.lives, 1, Len(st.lives) - 1)]

(***************************************************************************)
(* eval_tictactoe                                                          *)
(***************************************************************************)
\* the places of the columns (axis 0), of the rows (axis 1), of np.diag(mask)
\* and of np.diag(mask[:, ::-1])
Columns == {{at(<<r, c>>) : r \in Index} : c \in Index}
Rows == {{at(<<r, c>>) : c \in Index} : r \in Index}
Diagonal == {at(<<i, i>>) : i \in Index}
AntiDiagonal == {at(<<i, SIZE - 1 - i>>) : i \in Index}

team_wins(board, team) ==
    \/ \E line \in Columns : \A k \in line : board[k] = team
    \/ \E line \in Rows : \A k \in line : board[k] = team
    \/ \A k \in Diagonal : board[k] = team
    \/ \A k \in AntiDiagonal : board[k] = team

\* an evaluator that looks for a line of 'o' before it looks for one of 'x'
eval_o_first(board) ==
    IF team_wins(board, "o") THEN [score |-> (-1) * WIN_SCORE, done |-> TRUE]
    ELSE IF team_wins(board, "x") THEN [score |-> 1 * WIN_SCORE, done |-> TRUE]
    ELSE LET open_positions == Cardinality({k \in DOMAIN board : board[k] = " "})
         IN [score |-> 0, done |-> open_positions = 0]

\* an evaluator without the tie: the game is over only when a line is full
eval_no_tie(board) ==
    IF team_wins(board, "x") THEN [score |-> 1 * WIN_SCORE, done |-> TRUE]
    ELSE IF team_wins(board, "o") THEN [score |-> (-1) * WIN_SCORE, done |-> TRUE]
    ELSE [score |-> 0, done |-> FALSE]

eval_tictactoe(board) ==
    IF team_wins(board, "x") THEN [score |-> 1 * WIN_SCORE, done |-> TRUE]
    ELSE IF team_wins(board, "o") THEN [score |-> (-1) * WIN_SCORE, done |-> TRUE]
    ELSE LET open_positions == Cardinality({k \in DOMAIN board : board[k] = " "})
         IN [score |-> 0, done |-> open_positions = 0]

\* a moves() that hands the turn over while it lists the cells
moves_call_passing(st) ==
    [st |-> [st EXCEPT !.turn = next_turn(st.turn), !.nmoves = st.nmoves + 1],
     moves |-> moves(st.board)]

\* the call board.moves() on the process state: it reads self.board
moves_call(st) ==
    [st |-> [st EXCEPT !.nmoves = st.nmoves + 1], moves |-> moves(st.board)]

\* the call eval_tictactoe(board) on the process state: it reads board.board
eval_call(st) ==
    LET ev == eval_tictactoe(st.board)
    IN [st |-> st, score |-> ev.score, done |-> ev.done]

(***************************************************************************)
(* minmax                                                                  *)
(***************************************************************************)
RECURSIVE join(_, _)
join(board, k) ==
    IF k > Len(board) THEN "" ELSE board[k] \o join(board, k + 1)

\* "".join(board.board.flatten()) + str(max_depth - 1)
table_key(board, depth) == join(board, 1) \o ToString(depth)

\* a heuristic that looks one move further: it also plays the first move
\* left after the move it scores, and takes both back
score_move_heuristic_two_ply(st, move) ==
    LET s1 == do_move(st, move)
        left == moves(s1.board)
        s2 == IF Len(left) = 0 THEN s1 ELSE undo_move(do_move(s1, left[1]))
        score == eval_tictactoe(s1.board).score
    IN [st |-> undo_move(s2), score |-> score]

\* score_move_heuristic: plays the move, evaluates, takes the move back
score_move_heuristic(st, move) ==
    LET s1 == do_move(st, move)
        score == eval_tictactoe(s1.board).score
    IN [st |-> undo_move(s1), score |-> score]

\* list.sort computes the key of every element once, in list order
RECURSIVE sort_keys(_, _, _, _)
sort_keys(st, all_moves, i, keys) ==
    IF i > Len(all_moves) THEN [st |-> st, keys |-> keys]
    ELSE LET h == score_move_heuristic(st, all_moves[i])
         IN sort_keys(h.st, all_moves, i + 1, Append(keys, h.score))

\* the place of an element with key k in a stably sorted list of keys
RECURSIVE sorted_place(_, _, _, _)
sorted_place(keys, k, reverse, j) ==
    IF j > Len(keys) THEN j
    ELSE IF (IF reverse THEN k > keys[j] ELSE k < keys[j]) THEN j
    ELSE sorted_place(keys, k, reverse, j + 1)

insert_at(s, j, e) == SubSeq(s, 1, j - 1) \o <<e>> \o SubSeq(s, j, Len(s))

\* list.sort(key=..., reverse=...): stable, ascending unless reverse
RECURSIVE sort_moves(_, _, _, _, _, _)
sort_moves(all_moves, keys, reverse, i, out_moves, out_keys) ==
    IF i > Len(all_moves) THEN out_moves
    ELSE LET j == sorted_place(out_keys, keys[i], reverse, 1)
         IN sort_moves(all_moves, keys, reverse, i + 1,
                       insert_at(out_moves, j, all_moves[i]),
                       insert_at(out_keys, j, keys[i]))

max(a, b) == IF a >= b THEN a ELSE b
min(a, b) == IF a <= b THEN a ELSE b

\* direction = 1.0 if board.turn in ["x", "white"] else -1.0
search_direction(turn) == IF turn \in {"x", "white"} THEN 1 ELSE -1

\* reverse=(board.turn == "white")
sort_reverse(turn) == turn = "white"

\* all_moves = board.moves(); all_moves.sort(key=score_move_heuristic, ...)
order_moves(st) ==
    LET unsorted == moves(st.board)
        keyed == sort_keys([st EXCEPT !.nmoves = st.nmoves + 1], unsorted, 1, <<>>)
    IN [st |-> keyed.st,
        all_moves |-> sort_moves(unsorted, keyed.keys, sort_reverse(st.turn),
                                 1, <<>>, <<>>)]

\* a base case that hands back the first available move instead of None
base_case_with_move(st, score) ==
    [st |-> [st EXCEPT !.nmoves = st.nmoves + 1], score |-> score,
     move |-> IF Len(moves(st.board)) = 0 THEN None ELSE moves(st.board)[1]]

\* "score, done = eval_fn(board)": the evaluator has answered for the grid
judged(st, done) == [st EXCEPT !.live = ~done]

\* the base cases: "if done or max_depth == 0: return score, None"
base_case(st, score) == [st |-> st, score |-> score, move |-> None]

\* "if max_depth == 1": the first move of the sorted list, and its score
depth_one(st, all_moves) ==
    IF Len(all_moves) = 0
    THEN \* all_moves[0] of an empty list
         [st |-> [st EXCEPT !.err = "IndexError"], score |-> None, move |-> None]
    ELSE LET move == all_moves[1]
             s1 == do_move(st, move)
             score == eval_tictactoe(s1.board).score
         IN [st |-> undo_move(s1), score |-> score, move |-> move]

\* the test that ends the loop: "if beta <= alpha: break"
cutoff(alpha, beta) == beta <= alpha

\* the comparison with the direction applied to one side only
improves_unsigned(score, best_score, direction) ==
    score * direction > best_score

\* "if score * direction > best_score * direction"
improves(score, best_score, direction) ==
    score * direction > best_score * direction

RECURSIVE minmax(_, _, _, _)

\* the loop body without undo_move on the path that finds the key in the table
explore_leaky(st, move, max_depth, alpha, beta) ==
    LET s1 == do_move(st, move)
        key == table_key(s1.board, max_depth - 1)
    IN IF key \in DOMAIN s1.table
       THEN [st |-> [s1 EXCEPT !.nget = s1.nget + 1], score |-> s1.table[key]]
       ELSE LET r == minmax(s1, max_depth - 1, alpha, beta)
            IN IF r.st.err # None
               THEN [st |-> r.st, score |-> None]
               ELSE [st |-> undo_move([r.st EXCEPT
                                 !.table = (key :> r.score) @@ r.st.table,
                                 !.nset = r.st.nset + 1]),
                     score |-> r.score]

\* the loop body with a table that searches again on a hit and overwrites
\* the entry with the new score
explore_refreshing(st, move, max_depth, alpha, beta) ==
    LET s1 == do_move(st, move)
        key == table_key(s1.board, max_depth - 1)
        r == minmax(s1, max_depth - 1, alpha, beta)
    IN IF r.st.err # None
       THEN [st |-> r.st, score |-> None]
       ELSE [st |-> undo_move([r.st EXCEPT
                         !.table = (key :> r.score) @@ r.st.table,
                         !.nset = r.st.nset + 1]),
             score |-> r.score]

\* the body of the loop up to undo_move: the move is played, its score is
\* taken from the table or searched and stored, the move is taken back
explore(st, move, max_depth, alpha, beta) ==
    LET s1 == do_move(st, move)
        key == table_key(s1.board, max_depth - 1)
    IN IF key \in DOMAIN s1.table
       THEN [st |-> undo_move([s1 EXCEPT !.nget = s1.nget + 1]),
             score |-> s1.table[key]]
       ELSE LET r == minmax(s1, max_depth - 1, alpha, beta)
            IN IF r.st.err # None
               THEN \* the exception leaves the loop with the move applied
                    [st |-> r.st, score |-> None]
               ELSE [st |-> undo_move([r.st EXCEPT
                                 !.table = (key :> r.score) @@ r.st.table,
                                 !.nset = r.st.nset + 1]),
                     score |-> r.score]

\* the loop "for move in all_moves" of minmax, from the i-th move on
RECURSIVE search_tree(_, _, _, _, _, _, _, _, _)
search_tree(st, all_moves, i, max_depth, alpha, beta, direction, best_score, best_move) ==
    IF i > Len(all_moves)
    THEN [st |-> st, score |-> best_score, move |-> best_move]
    ELSE
    LET move == all_moves[i]
        sub == explore(st, move, max_depth, alpha, beta)
    IN IF sub.st.err # None
       THEN [st |-> sub.st, score |-> None, move |-> None]
       ELSE
       LET score == sub.score
           better == improves(score, best_score, direction)
           best_score2 == IF better THEN score ELSE best_score
           best_move2 == IF better THEN move ELSE best_move
           alpha2 == IF direction > 0 THEN max(alpha, score) ELSE alpha
           beta2 == IF direction > 0 THEN beta ELSE min(beta, score)
       IN IF cutoff(alpha2, beta2)
          THEN [st |-> [sub.st EXCEPT !.ncut = sub.st.ncut + 1],
                score |-> best_score2, move |-> best_move2]
          ELSE search_tree(sub.st, all_moves, i + 1, max_depth, alpha2, beta2,
                           direction, best_score2, best_move2)

minmax(st, max_depth, alpha, beta) ==
    LET ev == eval_tictactoe(st.board)
    IN IF ev.done \/ max_depth = 0
       THEN base_case(st, ev.score)
       ELSE LET ordered == order_moves(judged(st, ev.done))
            IN IF max_depth = 1
               THEN depth_one(ordered.st, ordered.all_moves)
               ELSE search_tree(ordered.st, ordered.all_moves, 1, max_depth,
                                alpha, beta, search_direction(st.turn),
                                (-Inf) * search_direction(st.turn), None)

\* "if tot_t > max_t" that never holds: the loop is not stopped by the clock
timed_out_never(tot_t, max_t) == FALSE

\* "if tot_t > max_t: break"
timed_out(tot_t, max_t) == tot_t > max_t

\* the locals of iterative_deepening after "t0 = time.time()" and
\* "score, move = None, None"; calls and checks list the minmax calls that
\* returned and the readings of the clock, in the order they happened
deepening_start(max_depth, max_t, t0) ==
    [pc |-> "loop", max_depth |-> max_depth, max_t |-> max_t, t0 |-> t0,
     depth |-> 0, score |-> None, move |-> None, calls |-> <<>>,
     checks |-> <<>>]

\* a loop that searches first and reads the clock afterwards
deepening_turn_search_first(dp, st, now) ==
    LET r == minmax(st, dp.depth, -Inf, Inf)
        tot_t == now - dp.t0
    IN [dp |-> [dp EXCEPT
                  !.score = r.score, !.move = r.move,
                  !.calls = Append(@, [depth |-> dp.depth, score |-> r.score,
                                        move |-> r.move]),
                  !.checks = Append(@, [depth |-> dp.depth, tot_t |-> tot_t,
                                         calls |-> Len(dp.calls) + 1]),
                  !.depth = dp.depth + 1,
                  !.pc = IF timed_out(tot_t, dp.max_t) \/ dp.depth = dp.max_depth
                         THEN "done" ELSE "loop"],
        st |-> r.st]

\* one turn of "for depth in range(max_depth + 1)": the clock is read (now),
\* the loop is left when the time is up, and otherwise minmax runs to its
\* end at this depth and its result replaces score and move
deepening_turn(dp, st, now) ==
    LET tot_t == now - dp.t0
        checked == [dp EXCEPT !.checks =
                        Append(@, [depth |-> dp.depth, tot_t |-> tot_t,
                                   calls |-> Len(dp.calls)])]
    IN IF timed_out(tot_t, dp.max_t)
       THEN [dp |-> [checked EXCEPT !.pc = "done"], st |-> st]
       ELSE LET r == minmax(st, dp.depth, -Inf, Inf)
            IN [dp |-> [checked EXCEPT
                          !.score = r.score, !.move = r.move,
                          !.calls = Append(@, [depth |-> dp.depth,
                                                score |-> r.score,
                                                move |-> r.move]),
                          !.depth = dp.depth + 1,
                          !.pc = IF r.st.err # None THEN "raised"
                                 ELSE IF dp.depth = dp.max_depth THEN "done"
                                 ELSE "loop"],
                st |-> r.st]

(***************************************************************************)
(* The chess board the tests of src/test_chess.py drive: the grid, the     *)
(* side to move, the flags (four castling rights and en_passant_spot) and  *)
(* the history of (move, captured piece, flags before the move).           *)
(***************************************************************************)
CHESS_SIZE == 8

\* the grid of ChessBoard(), row 0 (black's back rank) first; "." is empty
ChessStart ==
    << <<"r", "n", "b", "q", "k", "b", "n", "r">>,
       <<"p", "p", "p", "p", "p", "p", "p", "p">>,
       <<".", ".", ".", ".", ".", ".", ".", ".">>,
       <<".", ".", ".", ".", ".", ".", ".", ".">>,
       <<".", ".", ".", ".", ".", ".", ".", ".">>,
       <<".", ".", ".", ".", ".", ".", ".", ".">>,
       <<"P", "P", "P", "P", "P", "P", "P", "P">>,
       <<"R", "N", "B", "Q", "K", "B", "N", "R">> >>

\* the flags of a new board: every castling right, no en passant square
ChessFlags ==
    [w_castle_left |-> TRUE, w_castle_right |-> TRUE,
     b_castle_left |-> TRUE, b_castle_right |-> TRUE,
     en_passant_spot |-> None]

\* ChessBoard()
new_chess_board ==
    [board |-> ChessStart, turn |-> "white", flags |-> ChessFlags,
     history |-> <<>>, err |-> None]

\* Move(r_from, c_from, r_to, c_to)
Move(r_from, c_from, r_to, c_to) ==
    [r_from |-> r_from, c_from |-> c_from, r_to |-> r_to, c_to |-> c_to]

piece_at(grid, r, c) == grid[r + 1][c + 1]

put_piece(grid, r, c, piece) == [grid EXCEPT ![r + 1][c + 1] = piece]

chess_next_turn(side) == IF side = "white" THEN "black" ELSE "white"

is_pawn(piece) == piece \in {"p", "P"}

\* a pawn that advances two rows
two_square_advance(move, piece) ==
    is_pawn(piece) /\ (move.r_to - move.r_from) \in {2, -2}

\* the square a two-square advance passes over instead of the one it reaches
en_passant_skipped(move, piece) ==
    IF two_square_advance(move, piece)
    THEN <<(move.r_from + move.r_to) \div 2, move.c_to>>
    ELSE None

\* en_passant_spot after a move: the destination of a two-square pawn
\* advance, absent after every other move
en_passant_after(move, piece) ==
    IF two_square_advance(move, piece)
    THEN <<move.r_to, move.c_to>>
    ELSE None

\* castling rights that any move of a rook takes from both sides of its colour
castle_flags_any_rook(flags, move, piece) ==
    IF piece \in {"k", "r"}
    THEN [flags EXCEPT !.b_castle_left = FALSE, !.b_castle_right = FALSE]
    ELSE IF piece \in {"K", "R"}
    THEN [flags EXCEPT !.w_castle_left = FALSE, !.w_castle_right = FALSE]
    ELSE flags

\* the castling rights after a move: a king's move clears both rights of
\* its side, a rook leaving its original square clears the right of its
\* side on that column (left is column 0), other moves clear nothing
castle_flags_after(flags, move, piece) ==
    LET from == <<move.r_from, move.c_from>>
        last == CHESS_SIZE - 1
    IN IF piece = "k"
       THEN [flags EXCEPT !.b_castle_left = FALSE, !.b_castle_right = FALSE]
       ELSE IF piece = "K"
       THEN [flags EXCEPT !.w_castle_left = FALSE, !.w_castle_right = FALSE]
       ELSE IF piece = "r" /\ from = <<0, 0>>
       THEN [flags EXCEPT !.b_castle_left = FALSE]
       ELSE IF piece = "r" /\ from = <<0, last>>
       THEN [flags EXCEPT !.b_castle_right = FALSE]
       ELSE IF piece = "R" /\ from = <<last, 0>>
       THEN [flags EXCEPT !.w_castle_left = FALSE]
       ELSE IF piece = "R" /\ from = <<last, last>>
       THEN [flags EXCEPT !.w_castle_right = FALSE]
       ELSE flags

\* ChessBoard.do_move(move): the piece goes to its destination, what stood
\* there is captured, the turn passes, the flags are updated and the undo
\* record (with the flags as they were) is pushed
chess_do_move(cb, move) ==
    LET piece == piece_at(cb.board, move.r_from, move.c_from)
        captured == piece_at(cb.board, move.r_to, move.c_to)
        lifted == put_piece(cb.board, move.r_from, move.c_from, ".")
    IN [cb EXCEPT
          !.board = put_piece(lifted, move.r_to, move.c_to, piece),
          !.turn = chess_next_turn(cb.turn),
          !.flags = [castle_flags_after(cb.flags, move, piece) EXCEPT
                        !.en_passant_spot = en_passant_after(move, piece)],
          !.history = Append(cb.history,
                             [move |-> move, piece |-> piece,
                              captured |-> captured, flags |-> cb.flags])]

\* ChessBoard.undo_move(): the last undo record is popped, the piece goes
\* back, the captured piece returns, the turn and the flags of the record
\* are restored; on an empty history the call fails
chess_undo_move(cb) ==
    IF Len(cb.history) = 0
    THEN [cb EXCEPT !.err = "IndexError"]
    ELSE LET rec == cb.history[Len(cb.history)]
             back == put_piece(cb.board, rec.move.r_from, rec.move.c_from,
                               rec.piece)
         IN [cb EXCEPT
               !.board = put_piece(back, rec.move.r_to, rec.move.c_to,
                                   rec.captured),
               !.turn = chess_next_turn(cb.turn),
               !.flags = rec.flags,
               !.history = SubSeq(cb.history, 1, Len(cb.history) - 1)]

(***************************************************************************)
(* The process: one TicTacToeBoard (board, turn, past_moves), the          *)
(* module-level TRANSPOSITION_TABLE, and what the last call did (ret).     *)
(* applied counts the do_move calls not yet undone; strict tells that      *)
(* every do_move so far took its move from moves(); searches counts the    *)
(* top-level minmax calls.  deepening holds the locals of the call of      *)
(* iterative_deepening (pc "idle" before it, "done" once it has returned   *)
(* score and move) and clock is the time time.time() reads.  chess holds   *)
(* the chess board (cb), the last call made on it (last) and the flags     *)
(* seen before each move that is still applied (trail).                    *)
(***************************************************************************)
VARIABLES board, turn, past_moves, TRANSPOSITION_TABLE, ret, applied, strict, searches,
          deepening, clock, chess

vars == <<board, turn, past_moves, TRANSPOSITION_TABLE, ret, applied, strict, searches,
          deepening, clock, chess>>

\* what the calls on the board and the calls of minmax leave alone
aside == <<deepening, clock, chess>>

\* what the calls on the chess board leave alone
tictactoe == <<board, turn, past_moves, TRANSPOSITION_TABLE, ret, applied,
               strict, searches, deepening, clock>>

\* the process state at the start of a call, with the call counters cleared
Entry ==
    [board |-> board, turn |-> turn, past_moves |-> past_moves,
     table |-> TRANSPOSITION_TABLE, err |-> None,
     ndo |-> 0, nundo |-> 0, nmoves |-> 0, nget |-> 0, nset |-> 0, ncut |-> 0,
     nbad |-> 0, peak |-> Len(past_moves), live |-> FALSE, lives |-> <<>>]

\* the grid, the turn and the history of the board object
Position == [board |-> board, turn |-> turn, past_moves |-> past_moves]

\* a call returns: the state it leaves behind, and in ret what was called
\* (op, arguments, the position and the table at the call), what came back
\* (score, move, err) and how many calls of each kind it made
Returns(st, result) ==
    /\ board' = st.board
    /\ turn' = st.turn
    /\ past_moves' = st.past_moves
    /\ TRANSPOSITION_TABLE' = st.table
    /\ ret' = result @@ [err |-> st.err, ndo |-> st.ndo, nundo |-> st.nundo,
                         nmoves |-> st.nmoves, nget |-> st.nget,
                         nset |-> st.nset, ncut |-> st.ncut,
                         nbad |-> st.nbad, peak |-> st.peak]

Init ==
    /\ \E t \in {TURNS[1], TURNS[2]} :
          LET b == new_board(t)
          IN /\ board = b.board
             /\ turn = b.turn
             /\ past_moves = b.past_moves
    /\ TRANSPOSITION_TABLE = << >>
    /\ ret = [op |-> "init"]
    /\ applied = 0
    /\ strict = TRUE
    /\ searches = 0
    /\ deepening = [pc |-> "idle"]
    /\ clock = 0
    /\ chess = [cb |-> new_chess_board, last |-> [op |-> "init"],
                trail |-> <<>>]

InMoves(move) == \E i \in 1 .. Len(moves(board)) : moves(board)[i] = move

\* board.do_move(move), for any cell of the grid
DoMove(move) ==
    /\ Returns(do_move(Entry, move),
               [op |-> "do_move", arg |-> move, legal |-> InMoves(move),
                prior |-> Position])
    /\ applied' = applied + 1
    /\ strict' = (strict /\ InMoves(move))
    /\ UNCHANGED <<searches, aside>>

\* board.undo_move()
UndoMove ==
    LET st == undo_move(Entry)
    IN /\ Returns(st, [op |-> "undo_move", prior |-> Position,
                        after |-> IF ret.op = "do_move"
                                  THEN [op |-> ret.op, legal |-> ret.legal,
                                        prior |-> ret.prior]
                                  ELSE [op |-> ret.op]])
       /\ applied' = IF st.err = None THEN applied - 1 ELSE applied
       /\ UNCHANGED <<strict, searches, aside>>

\* the values of max_depth a caller passes
Depths == 0 .. MaxDepth

\* the (alpha, beta) a caller passes: the default window, the window of the
\* evaluator's score range, and a window that is closed from the start
Windows == {<<-Inf, Inf>>, <<-WIN_SCORE, WIN_SCORE>>, <<0, 0>>}

\* minmax(board, eval_tictactoe, max_depth, alpha, beta)
MinmaxCall(max_depth, alpha, beta) ==
    /\ searches' = searches + 1
    /\ LET r == minmax(Entry, max_depth, alpha, beta)
       IN Returns(r.st, [op |-> "minmax", max_depth |-> max_depth,
                         alpha |-> alpha, beta |-> beta,
                         prior |-> Position, table |-> TRANSPOSITION_TABLE,
                         score |-> r.score, move |-> r.move])
    /\ UNCHANGED <<applied, strict, aside>>

\* the only search of a process
Minmax(max_depth, alpha, beta) ==
    searches < MaxSearches /\ MinmaxCall(max_depth, alpha, beta)

\* the cells the game driver plays on
PlayCells == {AllCells[k] : k \in 1 .. MaxCell}

\* a caller of the board alone: any do_move, any undo_move
CallDoMove == Len(past_moves) < MaxPly /\ \E move \in Cell : DoMove(move)

\* board.moves(), called by a caller of the board
CallMoves ==
    /\ LET r == moves_call(Entry)
       IN Returns(r.st, [op |-> "moves", prior |-> Position,
                         result |-> r.moves])
    /\ UNCHANGED <<applied, strict, searches, aside>>

\* eval_tictactoe(board), called by a caller of the board
CallEval ==
    /\ LET r == eval_call(Entry)
       IN Returns(r.st, [op |-> "eval_tictactoe", prior |-> Position,
                         score |-> r.score, done |-> r.done])
    /\ UNCHANGED <<applied, strict, searches, aside>>

NextBoard == CallDoMove \/ UndoMove \/ CallMoves \/ CallEval

SpecBoard == Init /\ [][NextBoard]_vars

\* a caller that starts from TicTacToeBoard() (turn 'x'), takes every move
\* of do_move from moves(), and calls undo_move
InitX == Init /\ turn = TURNS[1]

LegalDoMove ==
    /\ Len(past_moves) < MaxPly
    /\ \E move \in Cell : InMoves(move) /\ DoMove(move)

NextLegal == LegalDoMove \/ UndoMove

SpecLegal == InitX /\ [][NextLegal]_vars

\* a game driver: it plays moves of moves() and searches in between
PlayMove == \E move \in PlayCells : InMoves(move) /\ DoMove(move)

Search == \E max_depth \in Depths, w \in Windows : Minmax(max_depth, w[1], w[2])

Next == PlayMove \/ Search

Spec == Init /\ [][Next]_vars

\* a process that searches more than once: as play_game does, it calls
\* minmax with the default window after a move was played, and the
\* module-level table is carried from one search to the next
WarmCells == {AllCells[k] : k \in 1 .. MaxWarmCell}

WarmDepths == 0 .. MaxDeep

WarmPlay == \E move \in WarmCells : InMoves(move) /\ DoMove(move)

Research ==
    /\ searches < MaxWarm
    /\ ret.op = "do_move"
    /\ Len(past_moves) >= MinWarmPly
    /\ \E max_depth \in WarmDepths : MinmaxCall(max_depth, -Inf, Inf)

NextCache == WarmPlay \/ Research

SpecCache == Init /\ [][NextCache]_vars

\* a process that plays some moves and then calls iterative_deepening once;
\* the call reads the clock before each depth, and between two readings
\* the clock has advanced by any amount up to MaxTick
IterCells == {AllCells[k] : k \in 1 .. MaxIterCell}

IterDepths == 0 .. MaxIterDepth

Budgets == -1 .. MaxTime

Ticks == 0 .. MaxTick

IterPlay ==
    /\ deepening.pc = "idle"
    /\ \E move \in IterCells : InMoves(move) /\ DoMove(move)

\* iterative_deepening(board, eval_tictactoe, max_depth, max_t) up to the loop
IterativeDeepening ==
    /\ deepening.pc = "idle"
    /\ \E max_depth \in IterDepths, max_t \in Budgets :
          deepening' = deepening_start(max_depth, max_t, clock)
    /\ ret' = [op |-> "iterative_deepening", prior |-> Position]
    /\ UNCHANGED <<board, turn, past_moves, TRANSPOSITION_TABLE, applied,
                   strict, searches, clock, chess>>

\* one turn of the loop, and with the last turn the return of score, move
DeepeningTurn ==
    /\ deepening.pc = "loop"
    /\ \E dt \in Ticks :
          LET r == deepening_turn(deepening, Entry, clock + dt)
          IN /\ clock' = clock + dt
             /\ deepening' = r.dp
             /\ Returns(r.st, [op |-> "iterative_deepening",
                               prior |-> Position])
    /\ UNCHANGED <<applied, strict, searches, chess>>

NextDeepening == IterPlay \/ IterativeDeepening \/ DeepeningTurn

SpecDeepening == Init /\ [][NextDeepening]_vars

\* the moves a caller of the chess board makes: those of test_en_passant_flags
\* and test_castle_flags, the other rook and the other king, a knight, and
\* the rook going back to its corner
ChessMoves ==
    {Move(1, 2, 3, 3), Move(1, 3, 2, 3), Move(6, 4, 4, 4),
     Move(0, 0, 0, 1), Move(7, 4, 7, 3),
     Move(7, 7, 7, 6), Move(0, 4, 0, 3), Move(7, 1, 5, 2), Move(0, 1, 0, 0)}

\* b.do_move(m) for a move whose origin holds a piece
ChessDoMove ==
    /\ Len(chess.cb.history) < MaxChessPly
    /\ \E move \in ChessMoves :
          LET piece == piece_at(chess.cb.board, move.r_from, move.c_from)
          IN /\ piece # "."
             /\ chess' = [cb |-> chess_do_move(chess.cb, move),
                          last |-> [op |-> "do_move", move |-> move,
                                    piece |-> piece,
                                    before |-> chess.cb.flags],
                          trail |-> Append(chess.trail, chess.cb.flags)]
    /\ UNCHANGED tictactoe

\* b.undo_move() on a board that has a move to take back
ChessUndoMove ==
    /\ Len(chess.cb.history) > 0
    /\ chess' = [cb |-> chess_undo_move(chess.cb),
                 last |-> [op |-> "undo_move", before |-> chess.cb.flags,
                           expected |-> chess.trail[Len(chess.trail)]],
                 trail |-> SubSeq(chess.trail, 1, Len(chess.trail) - 1)]
    /\ UNCHANGED tictactoe

NextChess == ChessDoMove \/ ChessUndoMove

SpecChess == Init /\ [][NextChess]_vars

\* eval_tictactoe as a function of the grid: the grid is any assignment of
\* " ", "x" and "o" to the cells (b.board can be assigned directly, as
\* time_game does), and the process evaluates it
Marks == {" ", TURNS[1], TURNS[2]}

InitGrid ==
    /\ board \in [1 .. SIZE * SIZE -> Marks]
    /\ turn \in {TURNS[1], TURNS[2]}
    /\ past_moves = <<>>
    /\ TRANSPOSITION_TABLE = << >>
    /\ ret = [op |-> "init"]
    /\ applied = 0
    /\ strict = TRUE
    /\ searches = 0
    /\ deepening = [pc |-> "idle"]
    /\ clock = 0
    /\ chess = [cb |-> new_chess_board, last |-> [op |-> "init"],
                trail |-> <<>>]

InitEval == InitGrid /\ turn = TURNS[1]

\* score, game_over = eval_tictactoe(b)
Evaluate ==
    /\ ret.op = "init"
    /\ LET ev == eval_tictactoe(board)
       IN ret' = [op |-> "eval_tictactoe", score |-> ev.score,
                  done |-> ev.done]
    /\ UNCHANGED <<board, turn, past_moves, TRANSPOSITION_TABLE, applied,
                   strict, searches, aside>>

NextEval == Evaluate

SpecEval == InitEval /\ [][NextEval]_vars

\* minmax with the default window on any grid, with either side to move
GridDepths == 0 .. MaxGridDepth

GridSearch ==
    /\ ret.op = "init"
    /\ \E max_depth \in GridDepths : MinmaxCall(max_depth, -Inf, Inf)

NextGrid == GridSearch

SpecGrid == InitGrid /\ [][NextGrid]_vars

(***************************************************************************)
(* Properties of the board alone, checked under SpecBoard.                 *)
(***************************************************************************)
occupied(b) == Cardinality({k \in DOMAIN b : b[k] # " "})

\* C1: do_move(m) with m taken from moves(), immediately followed by
\* undo_move(), succeeds and leaves the grid, the turn and past_moves exactly
\* as they were before do_move(m).
C1_DoUndoRestores ==
    (ret.op = "undo_move" /\ ret.after.op = "do_move" /\ ret.after.legal)
        => (ret.err = None /\ Position = ret.after.prior)

\* the pair do_move/undo_move has run on a board that already holds moves
C1_Witness ==
    /\ ret.op = "undo_move" /\ ret.after.op = "do_move" /\ ret.after.legal
    /\ Len(past_moves) >= 2

\* C6: undo_move() on a board with an empty history raises, and leaves the
\* grid, the turn and the history as they were.
C6_UndoOnEmptyFails ==
    (ret.op = "undo_move" /\ Len(ret.prior.past_moves) = 0)
        => (ret.err = "IndexError" /\ Position = ret.prior)

\* undo_move called once more than do_move, after moves were played and undone
C6_Witness ==
    /\ ret.op = "undo_move" /\ Len(ret.prior.past_moves) = 0
    /\ ret.after.op = "undo_move"
    /\ ret.err # None

\* C7: do_move(m) with m not in moves() (an occupied cell) fails and leaves
\* the grid, the turn and the history as they were.
C7_OccupiedCellRejected ==
    (ret.op = "do_move" /\ ~ret.legal)
        => (ret.err # None /\ Position = ret.prior)

\* C8: the length of past_moves is the number of do_move calls not yet
\* undone; on a board driven only with moves from moves() it is also the
\* number of occupied cells.
C8_HistoryLength ==
    /\ Len(past_moves) = applied
    /\ strict => Len(past_moves) = occupied(board)

\* moves were played from moves() and one of them was undone
C8_Witness ==
    /\ strict /\ applied >= 2
    /\ ret.op = "undo_move" /\ ret.err = None

(***************************************************************************)
(* Properties of minmax, checked under Spec.                               *)
(***************************************************************************)
Terminal(b) == eval_tictactoe(b).done

FullWindow == ret.alpha = -Inf /\ ret.beta = Inf

\* the cell a move of either side fills
place(b, move, side) == [b EXCEPT ![at(move)] = side]

MoveSet(b) == {moves(b)[i] : i \in 1 .. Len(moves(b))}

\* C2: when minmax returns, the grid, the turn and past_moves are those of
\* the call, and the search has made as many undo_move as do_move calls.
C2_SearchRestoresBoard ==
    ret.op = "minmax"
        => (Position = ret.prior /\ ret.err = None /\ ret.ndo = ret.nundo)

\* a search that played moves, took scores from the table and left a loop
\* through the cutoff
C2_Witness ==
    /\ ret.op = "minmax" /\ ret.max_depth >= 2
    /\ ret.ndo > 0 /\ ret.ncut > 0 /\ ret.nget > 0

\* plain minimax: no pruning, no ordering, no table; "x" maximises
RECURSIVE plain_minimax(_, _, _)
plain_minimax(b, side, depth) ==
    LET ev == eval_tictactoe(b)
    IN IF ev.done \/ depth = 0 THEN ev.score
       ELSE LET scores == {plain_minimax(place(b, m, side), next_turn(side), depth - 1)
                              : m \in MoveSet(b)}
            IN IF side = "x"
               THEN CHOOSE v \in scores : \A w \in scores : v >= w
               ELSE CHOOSE v \in scores : \A w \in scores : v <= w

\* C3: the score minmax returns with the default window is the score of
\* plain minimax of the same position at the same depth.
C3_ScoreIsPlainMinimax ==
    (ret.op = "minmax" /\ FullWindow)
        => ret.score = plain_minimax(ret.prior.board, ret.prior.turn, ret.max_depth)

win_score(side) == IF side = "x" THEN WIN_SCORE ELSE -WIN_SCORE

\* the moves that complete a line of the side to move
WinningMoves(b, side) == {m \in MoveSet(b) : team_wins(place(b, m, side), side)}

\* C4: on a non-terminal position where the side to move can complete a
\* line, minmax at depth >= 1 returns a line-completing move and that side's
\* winning score.
C4_TakesImmediateWin ==
    (/\ ret.op = "minmax" /\ FullWindow /\ ret.max_depth >= 1
     /\ ~Terminal(ret.prior.board)
     /\ WinningMoves(ret.prior.board, ret.prior.turn) # {})
        => (/\ ret.move \in WinningMoves(ret.prior.board, ret.prior.turn)
            /\ ret.score = win_score(ret.prior.turn))

\* the side to move wins within n plies whatever the other side replies
RECURSIVE ForcedWin(_, _, _)
ForcedWin(b, side, n) ==
    /\ n >= 1
    /\ ~Terminal(b)
    /\ \E m \in MoveSet(b) :
          LET b1 == place(b, m, side)
          IN \/ team_wins(b1, side)
             \/ /\ n >= 3
                /\ ~Terminal(b1)
                /\ \A reply \in MoveSet(b1) :
                      ForcedWin(place(b1, reply, next_turn(side)), side, n - 2)

\* the moves of the side to move after which its win is still forced
RECURSIVE WinningLine(_, _, _)
WinningLine(b, side, n) ==
    {m \in MoveSet(b) :
        LET b1 == place(b, m, side)
        IN \/ team_wins(b1, side)
           \/ /\ n >= 3
              /\ ~Terminal(b1)
              /\ \A reply \in MoveSet(b1) :
                    ForcedWin(place(b1, reply, next_turn(side)), side, n - 2)}

\* C5: where the side to move can force a win within N plies, minmax at any
\* depth >= N returns that side's winning score and a move on a winning line.
C5_FindsForcedWin ==
    (/\ ret.op = "minmax" /\ FullWindow
     /\ ForcedWin(ret.prior.board, ret.prior.turn, ret.max_depth))
        => (/\ ret.score = win_score(ret.prior.turn)
            /\ ret.move \in WinningLine(ret.prior.board, ret.prior.turn, SIZE * SIZE))

\* C9: on a terminal position, or with max_depth = 0, minmax returns the
\* evaluator's score of the position and no move, and has called neither
\* moves(), do_move nor undo_move, nor read or written the table.
C9_BaseCase ==
    (ret.op = "minmax" /\ (Terminal(ret.prior.board) \/ ret.max_depth = 0))
        => (/\ ret.score = eval_tictactoe(ret.prior.board).score
            /\ ret.move = None
            /\ ret.err = None
            /\ ret.nmoves = 0 /\ ret.ndo = 0 /\ ret.nundo = 0
            /\ ret.nget = 0 /\ ret.nset = 0
            /\ TRANSPOSITION_TABLE = ret.table)

\* minmax was called with max_depth >= 2 on a board with a completed line
C9_Witness ==
    /\ ret.op = "minmax" /\ ret.max_depth >= 2
    /\ Terminal(ret.prior.board)
    /\ eval_tictactoe(ret.prior.board).score # 0

\* C10: minmax returns no move exactly when the position is terminal or
\* max_depth = 0; otherwise, whatever the window, the move it returns is one
\* of moves() of the position at the call.
C10_MoveIffSearched ==
    ret.op = "minmax"
        => /\ (ret.move = None) <=> (Terminal(ret.prior.board) \/ ret.max_depth = 0)
           /\ ret.move # None => ret.move \in MoveSet(ret.prior.board)

\* the side "o" searched two plies or more in a window that is closed from
\* the start, and a move came back
C10_Witness ==
    /\ ret.op = "minmax" /\ ret.max_depth >= 2
    /\ ret.prior.turn = "o"
    /\ ret.beta <= ret.alpha
    /\ ret.move # None

(***************************************************************************)
(* Properties of the table that outlives a search, checked under SpecCache.*)
(***************************************************************************)
\* the call recorded in r made again on the same position with an empty table
cold(r) ==
    minmax([board |-> r.prior.board, turn |-> r.prior.turn,
            past_moves |-> r.prior.past_moves, table |-> << >>, err |-> None,
            ndo |-> 0, nundo |-> 0, nmoves |-> 0, nget |-> 0, nset |-> 0,
            ncut |-> 0, nbad |-> 0, peak |-> Len(r.prior.past_moves),
            live |-> FALSE, lives |-> <<>>],
           r.max_depth, r.alpha, r.beta)

\* C11: the score minmax returns depends on the position and on max_depth
\* only: a call made on a table that earlier searches have filled returns
\* the score the same call returns on an empty table.
C11_CacheIndependent ==
    (ret.op = "minmax" /\ ret.err = None) => ret.score = cold(ret).score

\* C19: the table only grows and is write-once: a call removes no key and
\* replaces no score that the table held before it, and every store of a
\* search adds a key the table did not hold.
C19_TableWriteOnce ==
    [][/\ \A key \in DOMAIN TRANSPOSITION_TABLE :
             /\ key \in DOMAIN TRANSPOSITION_TABLE'
             /\ TRANSPOSITION_TABLE'[key] = TRANSPOSITION_TABLE[key]
       /\ Cardinality(DOMAIN TRANSPOSITION_TABLE') =
             Cardinality(DOMAIN TRANSPOSITION_TABLE)
                + (IF ret'.op = "minmax" THEN ret'.nset ELSE 0)]_vars

\* a search on a table that an earlier search has filled, which both found
\* keys in it and stored new ones
C19_Witness ==
    /\ ret.op = "minmax"
    /\ DOMAIN ret.table # {}
    /\ ret.nget > 0
    /\ ret.nset > 0

(***************************************************************************)
(* Properties of iterative_deepening, checked under SpecDeepening.         *)
(***************************************************************************)
\* C12: iterative_deepening calls minmax at depths 0, 1, ... in increasing
\* order and never beyond max_depth; it reads the clock before each call
\* and at no other time (the k-th reading finds k-1 calls completed, and a
\* call is made only after a reading within the budget); it stops at the
\* first reading that exceeds max_t; and what it returns is the result of
\* the last call that completed.
C12_DeepeningOrder ==
    deepening.pc # "idle" =>
        LET calls == deepening.calls
            checks == deepening.checks
            stopped == Len(checks) = Len(calls) + 1
        IN /\ \A i \in DOMAIN calls : calls[i].depth = i - 1
           /\ Len(calls) <= deepening.max_depth + 1
           /\ \A i \in DOMAIN checks :
                 checks[i].depth = i - 1 /\ checks[i].calls = i - 1
           /\ Len(checks) = Len(calls) \/ stopped
           /\ \A i \in DOMAIN calls : checks[i].tot_t <= deepening.max_t
           /\ stopped => /\ checks[Len(checks)].tot_t > deepening.max_t
                          /\ deepening.pc = "done"
           /\ deepening.pc = "done" =>
                 (stopped \/ Len(calls) = deepening.max_depth + 1)
           /\ (deepening.pc = "done" /\ Len(calls) > 0) =>
                 /\ deepening.score = calls[Len(calls)].score
                 /\ deepening.move = calls[Len(calls)].move

\* the clock stopped the loop after two depths, short of max_depth
C12_Witness ==
    /\ deepening.pc = "done"
    /\ Len(deepening.calls) = 2
    /\ Len(deepening.checks) = 3
    /\ deepening.max_depth > 1

\* C13 as stated: whatever max_depth >= 0 and max_t are, the depth-0 search
\* completes, the function does not return (None, None), and on a board
\* that is not terminal with max_depth >= 1 the move returned can be played.
C13_AlwaysUsable ==
    deepening.pc = "done" =>
        /\ Len(deepening.calls) >= 1
        /\ ~(is_None(deepening.score) /\ is_None(deepening.move))
        /\ (~Terminal(board) /\ deepening.max_depth >= 1)
               => InMoves(deepening.move)

\* C13 amended: the result is usable once the first reading of the clock is
\* within the budget: then the depth-0 search completes and a score is
\* returned; when the first reading already exceeds max_t the function
\* returns (None, None).  On a board that is not terminal the move returned
\* can be played exactly when a search of depth >= 1 completed; otherwise
\* the move is None.
C13_UsableOncePastFirstCheck ==
    deepening.pc = "done" =>
        LET calls == deepening.calls
            first == deepening.checks[1]
        IN /\ first.tot_t <= deepening.max_t =>
                 /\ Len(calls) >= 1 /\ calls[1].depth = 0
                 /\ ~is_None(deepening.score)
                 /\ deepening.score \in {-WIN_SCORE, 0, WIN_SCORE}
           /\ first.tot_t > deepening.max_t =>
                 (is_None(deepening.score) /\ is_None(deepening.move))
           /\ ~Terminal(board) =>
                 (InMoves(deepening.move) <=> Len(calls) >= 2)
           /\ (Terminal(board) \/ Len(calls) < 2) => deepening.move = None

\* the budget was spent at the first reading and (None, None) came back
C13_Witness ==
    /\ deepening.pc = "done"
    /\ deepening.max_t >= 0
    /\ deepening.checks[1].tot_t > deepening.max_t
    /\ is_None(deepening.score)
    /\ ~Terminal(board)

(***************************************************************************)
(* Properties of the flags of the chess board, checked under SpecChess.    *)
(***************************************************************************)
\* two values of en_passant_spot are the same: both None, or the same square
same_spot(a, b) ==
    IF is_None(a) \/ is_None(b) THEN is_None(a) /\ is_None(b) ELSE a = b

\* C14: after do_move of a two-square pawn advance en_passant_spot is the
\* destination square of the move; after do_move of any other move it is
\* None; after undo_move it is what it was before the move that was undone.
C14_EnPassantSpot ==
    LET spot == chess.cb.flags.en_passant_spot
        last == chess.last
    IN /\ (last.op = "do_move" /\ two_square_advance(last.move, last.piece))
            => same_spot(spot, <<last.move.r_to, last.move.c_to>>)
       /\ (last.op = "do_move" /\ ~two_square_advance(last.move, last.piece))
            => is_None(spot)
       /\ last.op = "undo_move"
            => same_spot(spot, last.expected.en_passant_spot)

\* test_en_passant_flags: two moves, the white pawn's two-square advance
\* set the square (4, 4), and undo_move took it away again
C14_Witness ==
    /\ chess.last.op = "undo_move"
    /\ same_spot(chess.last.before.en_passant_spot, <<4, 4>>)
    /\ is_None(chess.cb.flags.en_passant_spot)
    /\ Len(chess.cb.history) = 2

castling(flags) ==
    <<flags.w_castle_left, flags.w_castle_right,
      flags.b_castle_left, flags.b_castle_right>>

\* C15: the four castling flags start true; a rook that moves away from its
\* home square clears the flag of its side and column and no other; a
\* king's move clears both flags of its side and none of the other side;
\* any other move leaves the four flags as they were; undo_move restores
\* the complete flag mapping of before the move.
C15_CastlingFlags ==
    LET flags == chess.cb.flags
        last == chess.last
        was == last.before
        from == <<last.move.r_from, last.move.c_from>>
    IN /\ last.op = "init" => castling(flags) = <<TRUE, TRUE, TRUE, TRUE>>
       /\ last.op = "undo_move" =>
            /\ castling(flags) = castling(last.expected)
            /\ same_spot(flags.en_passant_spot, last.expected.en_passant_spot)
       /\ last.op = "do_move" =>
            castling(flags) =
                IF last.piece = "K"
                THEN <<FALSE, FALSE, was.b_castle_left, was.b_castle_right>>
                ELSE IF last.piece = "k"
                THEN <<was.w_castle_left, was.w_castle_right, FALSE, FALSE>>
                ELSE IF last.piece = "R" /\ from = <<7, 0>>
                THEN <<FALSE, was.w_castle_right,
                       was.b_castle_left, was.b_castle_right>>
                ELSE IF last.piece = "R" /\ from = <<7, 7>>
                THEN <<was.w_castle_left, FALSE,
                       was.b_castle_left, was.b_castle_right>>
                ELSE IF last.piece = "r" /\ from = <<0, 0>>
                THEN <<was.w_castle_left, was.w_castle_right,
                       FALSE, was.b_castle_right>>
                ELSE IF last.piece = "r" /\ from = <<0, 7>>
                THEN <<was.w_castle_left, was.w_castle_right,
                       was.b_castle_left, FALSE>>
                ELSE castling(was)

\* test_castle_flags: after the black left rook and the white king have
\* moved, undo_move gives white both flags back and black's left stays lost
C15_Witness ==
    /\ chess.last.op = "undo_move"
    /\ castling(chess.last.before) = <<FALSE, FALSE, FALSE, TRUE>>
    /\ castling(chess.cb.flags) = <<TRUE, TRUE, FALSE, TRUE>>

(***************************************************************************)
(* Properties of the move ordering, of the depth-1 result and of the       *)
(* entries of the table, checked under Spec.                               *)
(***************************************************************************)
\* the process state at the start of a call made on position p with table t
entered(p, t) ==
    [board |-> p.board, turn |-> p.turn, past_moves |-> p.past_moves,
     table |-> t, err |-> None,
     ndo |-> 0, nundo |-> 0, nmoves |-> 0, nget |-> 0, nset |-> 0, ncut |-> 0,
     nbad |-> 0, peak |-> Len(p.past_moves),
     live |-> FALSE, lives |-> <<>>]

\* the score of the position one ply after move
one_ply(b, side, move) == eval_tictactoe(place(b, move, side)).score

\* the best one-ply score for the side to move: 'x' maximises, 'o' minimises
best_one_ply(b, side) ==
    LET scores == {one_ply(b, side, m) : m \in MoveSet(b)}
    IN IF side = "x"
       THEN CHOOSE s \in scores : \A t \in scores : s >= t
       ELSE CHOOSE s \in scores : \A t \in scores : s <= t

\* C16: the candidate moves minmax explores are ordered by their one-ply
\* score, descending when the side to move maximises ('x') and ascending
\* when it minimises ('o').
C16_OrderedBestFirst ==
    (ret.op = "minmax" /\ ret.max_depth >= 1 /\ ~Terminal(ret.prior.board))
        => LET b == ret.prior.board
               side == ret.prior.turn
               all_moves == order_moves(entered(ret.prior, ret.table)).all_moves
           IN \A i, j \in DOMAIN all_moves :
                 i < j => IF side = "x"
                          THEN one_ply(b, side, all_moves[i])
                                  >= one_ply(b, side, all_moves[j])
                          ELSE one_ply(b, side, all_moves[i])
                                  <= one_ply(b, side, all_moves[j])

\* C17: at max_depth = 1 on a position that is not terminal, minmax returns
\* a move whose one-ply score is the best one for the side to move (the
\* largest for 'x', the smallest for 'o'), and returns that score.
C17_DepthOneBest ==
    (ret.op = "minmax" /\ ret.max_depth = 1 /\ ~Terminal(ret.prior.board))
        => /\ ret.score = best_one_ply(ret.prior.board, ret.prior.turn)
           /\ ret.move \in MoveSet(ret.prior.board)
           /\ one_ply(ret.prior.board, ret.prior.turn, ret.move) = ret.score

\* the positions n plies below (b, side) that a search explores: moves are
\* made on positions that are not terminal
RECURSIVE below(_, _, _)
below(b, side, n) ==
    IF n = 0 THEN {[board |-> b, turn |-> side, past_moves |-> <<>>]}
    ELSE IF Terminal(b) THEN {}
    ELSE UNION {below(place(b, m, side), next_turn(side), n - 1) :
                    m \in MoveSet(b)}

\* C18: every entry of the table is exact: the score stored for a layout
\* and a depth d is the score minmax returns for the position with that
\* layout at depth d with the full window and an empty table.  (After a
\* search with the default window on an empty table, the entries are for
\* positions n plies below the root, at depth max_depth - n.)
C18_EntriesExact ==
    (ret.op = "minmax" /\ ret.err = None /\ FullWindow)
        => \A n \in 1 .. (ret.max_depth - 1) :
              \A p \in below(ret.prior.board, ret.prior.turn, n) :
                 LET key == table_key(p.board, ret.max_depth - n)
                 IN key \in DOMAIN TRANSPOSITION_TABLE =>
                      TRANSPOSITION_TABLE[key] =
                          minmax(entered(p, << >>), ret.max_depth - n,
                                 -Inf, Inf).score

(***************************************************************************)
(* Properties of the evaluator, checked under SpecEval.                    *)
(***************************************************************************)
\* the eight lines of the grid, as the places of their cells in row-major
\* order
Lines ==
    {{1, 2, 3}, {4, 5, 6}, {7, 8, 9}, {1, 4, 7}, {2, 5, 8}, {3, 6, 9},
     {1, 5, 9}, {3, 5, 7}}

fills_line(b, side) == \E line \in Lines : \A k \in line : b[k] = side

\* C20: eval_tictactoe returns (+1000, True) when 'x' fills a row, a column
\* or a diagonal (also when 'o' fills one too); otherwise (-1000, True) when
\* 'o' fills one; otherwise (0, True) when no cell is empty and (0, False)
\* when one is.  So the score is -1000, 0 or 1000 and a score other than 0
\* comes with game_over.
C20_EvalCases ==
    ret.op = "eval_tictactoe" =>
        /\ <<ret.score, ret.done>> =
              IF fills_line(board, "x") THEN <<WIN_SCORE, TRUE>>
              ELSE IF fills_line(board, "o") THEN <<-WIN_SCORE, TRUE>>
              ELSE IF \A k \in DOMAIN board : board[k] # " " THEN <<0, TRUE>>
              ELSE <<0, FALSE>>
        /\ ret.score \in {-WIN_SCORE, 0, WIN_SCORE}
        /\ ret.score # 0 => ret.done

\* a grid on which both sides fill a line has been evaluated
C20_Witness ==
    /\ ret.op = "eval_tictactoe"
    /\ fills_line(board, "x") /\ fills_line(board, "o")
    /\ ret.score = WIN_SCORE

(***************************************************************************)
(* Properties of the reads of the board, checked under SpecBoard.          *)
(***************************************************************************)
EmptyCells(b) == {c \in Cell : b[at(c)] = " "}

\* C21: eval_tictactoe(board) and board.moves() leave the grid, the turn and
\* past_moves as they were, and moves() returns the empty cells, each once,
\* whoever is to move.
C21_PureReads ==
    /\ ret.op \in {"moves", "eval_tictactoe"}
          => (Position = ret.prior /\ ret.err = None
              /\ ret.ndo = 0 /\ ret.nundo = 0)
    /\ ret.op = "moves"
          => /\ {ret.result[i] : i \in DOMAIN ret.result} = EmptyCells(board)
             /\ Len(ret.result) = Cardinality(EmptyCells(board))

\* moves() was called with 'o' to move on a grid that holds marks
C21_Witness ==
    /\ ret.op = "moves"
    /\ turn = "o"
    /\ occupied(board) >= 1
    /\ Len(ret.result) + occupied(board) = SIZE * SIZE

(***************************************************************************)
(* Properties of the turn, checked under SpecLegal.                        *)
(***************************************************************************)
count(b, side) == Cardinality({k \in DOMAIN b : b[k] = side})

\* C22: on a board created with turn 'x' and changed by do_move of moves
\* of moves() and by undo_move, the turn is 'x' or 'o', there are as many
\* 'x' as 'o' or one more, and the turn is 'x' exactly when there are as
\* many; do_move hands the turn to the other side and undo_move hands it
\* back.
C22_TurnAndCounts ==
    /\ turn \in {"x", "o"}
    /\ count(board, "x") - count(board, "o") \in {0, 1}
    /\ (turn = "x") <=> (count(board, "x") = count(board, "o"))
    /\ ret.op = "do_move"
          => (turn # ret.prior.turn /\ board[at(ret.arg)] = ret.prior.turn)
    /\ (ret.op = "undo_move" /\ ret.err = None)
          => (turn # ret.prior.turn
              /\ turn = IF Len(past_moves) % 2 = 0 THEN "x" ELSE "o")
    /\ (ret.op = "undo_move" /\ ret.err # None) => turn = ret.prior.turn

\* undo_move has handed the turn back to 'o' with one 'x' still on the grid
C22_Witness ==
    /\ ret.op = "undo_move" /\ ret.err = None
    /\ turn = "o"
    /\ count(board, "x") = 1 /\ count(board, "o") = 0

(***************************************************************************)
(* Properties of a search on any grid, checked under SpecGrid.             *)
(***************************************************************************)
finite(score) == -Inf < score /\ score < Inf

\* C23: on every grid that eval_tictactoe reports as not game-over moves()
\* is not empty; and minmax with max_depth >= 1 raises no IndexError from
\* an empty move list and returns a finite score, at the root and at every
\* position below it whose score it stores.
C23_MovesWhenNotOver ==
    /\ ~eval_call(Entry).done => Len(moves_call(Entry).moves) > 0
    /\ (ret.op = "minmax" /\ ret.max_depth >= 1) =>
          /\ ret.err = None
          /\ finite(ret.score)
          /\ \A key \in DOMAIN TRANSPOSITION_TABLE :
                finite(TRANSPOSITION_TABLE[key])
          /\ ~Terminal(board) => ret.move \in MoveSet(board)

\* a search of depth >= 2 on a grid with two empty cells and no full line:
\* below the root it met positions with one empty cell and full ones
C23_Witness ==
    /\ ret.op = "minmax"
    /\ ret.max_depth >= 2
    /\ ~Terminal(board)
    /\ occupied(board) = SIZE * SIZE - 2
    /\ ret.nset >= 2

\* C24: a search never calls do_move onto a cell that is not empty, nor on
\* a position that eval_tictactoe reports as over (a full line or a full
\* board): every do_move it made was onto an empty cell of a position still
\* in play, and a search started on a finished position makes none.
C24_SearchPlaysLegally ==
    ret.op = "minmax" =>
        /\ ret.nbad = 0
        /\ Terminal(ret.prior.board) => ret.ndo = 0

\* a search of depth 3 from a grid in play with two empty cells: it played
\* down to full boards and stopped there
C24_Witness ==
    /\ ret.op = "minmax"
    /\ ret.max_depth = 3
    /\ ~Terminal(board)
    /\ occupied(board) = SIZE * SIZE - 2
    /\ ret.peak = 2
    /\ ret.ndo >= 4

\* the most do_move calls a search of depth d can make on n empty cells:
\* one per move for the ordering; at depth 1 one more for the move it
\* returns, above depth 1 one more per move, each followed by the search of
\* the position after it
RECURSIVE work(_, _)
work(n, d) ==
    IF n = 0 \/ d = 0 THEN 0
    ELSE IF d = 1 THEN n + 1
    ELSE n + n * (1 + work(n - 1, d - 1))

\* C25: minmax returns for every max_depth >= 0 on every grid, after a
\* bounded number of moves, each of them taken back; and past_moves was
\* never longer than its length at the call plus max_depth.
C25_DepthBounded ==
    ret.op = "minmax" =>
        /\ ret.err = None
        /\ ret.ndo = ret.nundo
        /\ ret.ndo <= work(Cardinality(EmptyCells(ret.prior.board)), ret.max_depth)
        /\ Len(past_moves) = Len(ret.prior.past_moves)
        /\ ret.peak - Len(ret.prior.past_moves) <= ret.max_depth

\* a search of depth 3 that went the full three moves down
C25_Witness ==
    /\ ret.op = "minmax"
    /\ ret.max_depth = 3
    /\ ret.peak - Len(ret.prior.past_moves) = 3
    /\ ret.ndo = ret.nundo
    /\ ret.ndo > 3

====
